---- MODULE Spec2Model ----
(***************************************************************************)
(* util::chan<T> (shared/util/chan.hpp), logger::Logger                    *)
(* (shared/logger/logger.hpp), the Logger of shared/logger/logger.go, the  *)
(* MetaConfig of shared/dataloader and the MetaHook of shared/metahook of  *)
(* the Cthulhu system as a state machine.                                  *)
(*                                                                         *)
(* Every method of chan takes chanMutex on entry and holds it until it     *)
(* returns or until it blocks in condition_variable::wait, which releases  *)
(* the mutex.  One action of the model is therefore one critical section:  *)
(* from taking the mutex to the return or to the wait, and from the wakeup *)
(* out of a wait (the mutex taken again) to the return or the next wait.   *)
(*                                                                         *)
(* A condition variable is the set of threads blocked in its wait().       *)
(* notify_one takes any one thread out of the set, notify_all every one, a *)
(* spurious wakeup any one at any time.  A thread taken out of the set is  *)
(* runnable: it takes the mutex and evaluates the predicate of its wait.   *)
(***************************************************************************)
EXTENDS Integers, Sequences, FiniteSets

\* Bounds of the model
NThreads == 3       \* client threads of the channel in Spec
MaxPush == 2        \* push() calls in a run (each pushes a fresh value)
NProducers == 2     \* threads that log on the Logger
MaxQueueThreshold == 2  \* largest logQueueThreshold given to the Logger
MaxFifoPush == 3    \* push() calls in a run of FifoSpec
MaxGoQueueSize == 2 \* largest logQueueSize given to InitLogger of the Go logger
MaxGoSend == 3      \* channel sends in a run of the Go logger
MaxFields == 2      \* fields in an update request to the MetaHook
NConfThreads == 2   \* threads that call the MetaConfig, each of them once

Threads == 1 .. NThreads
\* Threads of the Logger specification
Worker == 1
Dtor == 2
Producers == 3 .. (2 + NProducers)
AllThreads == Threads \cup {Worker, Dtor} \cup Producers

\* T(): the value-initialised element get() returns with ok = false.
\* Pushed values are 1, 2, ... (the number of the push() call).
DefaultT == 0

VARIABLES
  \* util::chan
  isChanShut,         \* bool isChanShut
  chanQueue,          \* queue<T> chanQueue
  readerThreadCount,  \* int readerThreadCount
  chanCondWait,       \* threads blocked in chanCond.wait
  readerCondWait,     \* threads blocked in readerCond.wait
  \* threads
  pc,                 \* where each thread is: "idle" (outside chan),
                      \* "get_wait" (in get(), line 87), "close_wait" (in close(), line 116)
  ret,                \* the pair<T,bool> the last get() of each thread returned
  \* history of the channel
  pushCalls,          \* number of push() calls made
  accepted,           \* the values push() enqueued, in the order of the mutex
  delivered,          \* [val, by]: the values get() popped, in the order of the mutex
  closer,             \* the thread whose close() shut the channel (0: none yet)
  blockedAtClose,     \* the threads that were inside chanCond.wait at that moment
  destroyer,          \* the thread that runs ~chan (0: none yet)
  destroyed,          \* ~chan has returned
  \* logger::Logger
  cpc,                \* the place of the thread that runs Logger(...)
  workers,            \* number of worker threads started
  logLevel,           \* LOGLEVEL logLevel
  logDebug,           \* bool logDebug
  logQueueThreshold,  \* the logQueueThreshold given to the constructor
  logChanThreshold,   \* int logChanThreshold
  logFileOpen,        \* logFile.is_open()
  logFileContent,     \* the records written to the log file
  wpc,                \* the worker's place in the loop of startLogWorker
  dpc,                \* the place of the thread that runs ~Logger
  pendingAtShutdown,  \* the records accepted when ~Logger was entered
  lateWrites,         \* writes to logFile the worker made after ~Logger returned
  logMsgs,            \* the level of the LogMessage of each push() call, by its number
  logMsgDebug,        \* whether that LogMessage has a debuginfo block
  pendingBeforeGet,   \* records accepted before the worker dequeued any
  writes,             \* [rec, for, tag, debug]: the records given to log(), in
                      \* order, with the level tag and debug block of the line
  sizeRead,           \* the value of logChan.size() read after each dequeue
  \* Logger of logger.go
  goLogLevel,         \* l.logLevel
  goQueueSize,        \* logQueueSize, the capacity of l.logChan
  goChanThreshold,    \* l.logChanThreshold
  goLogChan,          \* the messages buffered in l.logChan (their levels)
  goClosed,           \* l.logChan has been closed
  ipc,                \* the place of the goroutine that called InitLogger
  gpc,                \* the place of each goroutine that logs
  goPending,          \* the message of a goroutine that is blocked in its send
  goMsg,              \* the message the worker loop has received
  goSends,            \* number of channel sends begun
  cgpc,               \* the place of the goroutine that calls CloseLogger
  goPanicked,         \* a goroutine has panicked: the program is aborted
  goWritten,          \* the levels of the messages given to log()
  \* MetaConfig of dataloader.hpp and dataloader.go
  lang,               \* which of the two implementations runs: "hpp" or "go"
  confFile,           \* the content of the file at configPath
  tmpFile,            \* the content of the file at configPath + ".tmp"
  config,             \* the in-memory config map
  fileLockW,          \* the thread that holds configFileLock exclusively (0: none)
  fileLockR,          \* the threads that hold configFileLock shared
  confLockW,          \* the thread that holds configLock exclusively (0: none)
  confLockR,          \* the threads that hold configLock shared
  cfpc,               \* the place of each thread: "idle" before its call, a place
                      \* inside a MetaConfig method, or how its call has ended
  mapBuffer,          \* the mapBuffer of each thread's ReadFromDisk
  streamBad,          \* a write to the stream of each thread's WriteToDisk failed
  crashed,            \* the process has ended (crash or unrecovered panic)
  contentBefore,      \* what the file at configPath held when the latest
                      \* WriteToDisk began to write
  contentNew,         \* the full deparsed config of that WriteToDisk
  \* MetaHook of metahook.go
  hkpc,               \* the place of the goroutine that runs updateHandler
  hkMethodPost,       \* r.Method == "POST"
  hkBodyOk,           \* the request body decodes into an updateRequest
  hkFields,           \* number of fields in the request
  hkSpawned,          \* number of goroutines the handler has started
  fpc,                \* the place of the goroutine of each field
  hkHookExists,       \* whether updateHooks has a hook for the key of each field
  hkHookFails,        \* whether that hook returns an error
  hkResErr,           \* res.Err: the fields whose hook error has been appended
  hkResponse          \* what has been written to the http.ResponseWriter

chanVars == <<isChanShut, chanQueue, readerThreadCount, chanCondWait, readerCondWait>>
threadVars == <<pc, ret>>
histVars == <<pushCalls, accepted, delivered, closer, blockedAtClose>>
logConfig == <<logLevel, logDebug, logQueueThreshold, logChanThreshold>>
ctorVars == <<cpc, workers>>
msgVars == <<logMsgs, logMsgDebug, pendingBeforeGet>>
goVars == <<goLogLevel, goQueueSize, goChanThreshold, goLogChan, goClosed, ipc, gpc,
            goPending, goMsg, goSends, cgpc, goPanicked, goWritten>>
hppVars == <<ctorVars, logConfig, msgVars, logFileOpen, logFileContent, wpc, dpc,
             pendingAtShutdown, lateWrites, writes, sizeRead>>
loggerVars == <<hppVars, goVars>>
lifeVars == <<destroyer, destroyed>>
confVars == <<lang, confFile, tmpFile, config, fileLockW, fileLockR, confLockW, confLockR,
              cfpc, mapBuffer, streamBad, crashed, contentBefore,
              contentNew>>
hookVars == <<hkpc, hkMethodPost, hkBodyOk, hkFields, hkSpawned, fpc, hkHookExists,
              hkHookFails, hkResErr, hkResponse>>
metaVars == <<confVars, hookVars>>
vars == <<chanVars, threadVars, histVars, lifeVars, loggerVars, metaVars>>

----------------------------------------------------------------------------
\* std::queue and std::condition_variable

QueuePushFront(q, val) == <<val>> \o q
QueuePush(q, val) == Append(q, val)
QueueFrontIsBack(q) == q[Len(q)]
QueueFront(q) == Head(q)
QueuePopKeeps(q) == q
QueuePop(q) == Tail(q)

\* The wait sets notify_one can leave behind: one blocked thread, any one, is woken.
NotifyOneWakesNone(waiting) == {waiting}
NotifyOne(waiting) ==
  IF waiting = {} THEN {waiting} ELSE {waiting \ {t} : t \in waiting}

\* notify_all wakes every blocked thread.
NotifyAllWakesOne(waiting) ==
  IF waiting = {} THEN {} ELSE waiting \ {CHOOSE t \in waiting : TRUE}
NotifyAll(waiting) == {}

\* The predicate of chanCond.wait in get()
GetWaitPredicate == isChanShut \/ chanQueue # <<>>

\* The predicate of readerCond.wait in close()
CloseWaitPredicateOffByOne == readerThreadCount <= 1
CloseWaitPredicate == readerThreadCount <= 0

\* The first check of push(): a shut channel takes nothing.
PushNeverRefused == FALSE
PushRefused == isChanShut

\* The first check of get(): a shut channel returns at once.
GetRefused == isChanShut

\* What size() returns
SizeCountsShutQueue == Len(chanQueue)
SizeValue == IF isChanShut THEN 0 ELSE Len(chanQueue)

\* pair<T, bool>; ret holds NoResult until the thread's first get() has returned
GetResult(val, ok) == [val |-> val, ok |-> ok, returned |-> TRUE]
NoResult == [val |-> DefaultT, ok |-> FALSE, returned |-> FALSE]

\* make_pair(T(), false)
ClosedResultOk == GetResult(DefaultT, TRUE)
ClosedResult == GetResult(DefaultT, FALSE)

----------------------------------------------------------------------------
\* util::chan

\* A push(val) that proceeds only when a receiver waits for it
ChanPushWaitsForReceiver(t, val) ==
  /\ pc[t] = "idle"
  /\ isChanShut \/ readerThreadCount > 0
  /\ pushCalls' = pushCalls + 1
  /\ IF PushRefused
       THEN UNCHANGED <<chanQueue, chanCondWait, accepted>>
       ELSE /\ chanQueue' = QueuePush(chanQueue, val)
            /\ chanCondWait' \in NotifyOne(chanCondWait)
            /\ accepted' = Append(accepted, val)
  /\ UNCHANGED <<isChanShut, readerThreadCount, readerCondWait, pc, ret,
                 delivered, closer, blockedAtClose>>

\* push(val)
ChanPush(t, val) ==
  /\ pc[t] = "idle"
  /\ pushCalls' = pushCalls + 1
  /\ IF PushRefused
       THEN UNCHANGED <<chanQueue, chanCondWait, accepted>>
       ELSE /\ chanQueue' = QueuePush(chanQueue, val)
            /\ chanCondWait' \in NotifyOne(chanCondWait)
            /\ accepted' = Append(accepted, val)
  /\ UNCHANGED <<isChanShut, readerThreadCount, readerCondWait, pc, ret,
                 delivered, closer, blockedAtClose>>

\* A get() that leaves the wait without the decrement of readerThreadCount
GetLeaveWaitKeepsCount(t, count) ==
  /\ readerThreadCount' = count
  /\ IF isChanShut
       THEN /\ readerCondWait' \in NotifyOne(readerCondWait)
            /\ ret' = [ret EXCEPT ![t] = ClosedResult]
            /\ UNCHANGED <<chanQueue, delivered>>
       ELSE /\ ret' = [ret EXCEPT ![t] = GetResult(QueueFront(chanQueue), TRUE)]
            /\ chanQueue' = QueuePop(chanQueue)
            /\ delivered' = Append(delivered, [val |-> QueueFront(chanQueue), by |-> t])
            /\ UNCHANGED readerCondWait
  /\ pc' = [pc EXCEPT ![t] = "idle"]

\* get() from the end of chanCond.wait to its return; count is readerThreadCount
\* as the wait left it.
GetLeaveWait(t, count) ==
  /\ readerThreadCount' = count - 1
  /\ IF isChanShut
       THEN /\ readerCondWait' \in NotifyOne(readerCondWait)
            /\ ret' = [ret EXCEPT ![t] = ClosedResult]
            /\ UNCHANGED <<chanQueue, delivered>>
       ELSE /\ ret' = [ret EXCEPT ![t] = GetResult(QueueFront(chanQueue), TRUE)]
            /\ chanQueue' = QueuePop(chanQueue)
            /\ delivered' = Append(delivered, [val |-> QueueFront(chanQueue), by |-> t])
            /\ UNCHANGED readerCondWait
  /\ pc' = [pc EXCEPT ![t] = "idle"]

\* get() from its entry to its return or to the wait
ChanGet(t) ==
  /\ pc[t] = "idle"
  /\ IF GetRefused
       THEN /\ ret' = [ret EXCEPT ![t] = ClosedResult]
            /\ UNCHANGED <<chanQueue, readerThreadCount, chanCondWait, readerCondWait,
                           pc, delivered>>
       ELSE IF GetWaitPredicate
         THEN /\ GetLeaveWait(t, readerThreadCount + 1)
              /\ UNCHANGED chanCondWait
         ELSE /\ readerThreadCount' = readerThreadCount + 1
              /\ chanCondWait' = chanCondWait \cup {t}
              /\ pc' = [pc EXCEPT ![t] = "get_wait"]
              /\ UNCHANGED <<chanQueue, readerCondWait, ret, delivered>>
  /\ UNCHANGED <<isChanShut, pushCalls, accepted, closer, blockedAtClose>>

\* get() woken in chanCond.wait: the predicate is evaluated with the mutex held
ChanGetWake(t) ==
  /\ pc[t] = "get_wait"
  /\ t \notin chanCondWait
  /\ IF GetWaitPredicate
       THEN /\ GetLeaveWait(t, readerThreadCount)
            /\ UNCHANGED chanCondWait
       ELSE /\ chanCondWait' = chanCondWait \cup {t}
            /\ UNCHANGED <<chanQueue, readerThreadCount, readerCondWait, pc, ret, delivered>>
  /\ UNCHANGED <<isChanShut, pushCalls, accepted, closer, blockedAtClose>>

\* close() returns at once on a channel that is shut
CloseNeverRefused == FALSE
CloseRefused == isChanShut

\* close() from its entry to its return or to the wait
ChanClose(t) ==
  /\ pc[t] = "idle"
  /\ IF CloseRefused
       THEN UNCHANGED <<isChanShut, chanCondWait, readerCondWait, pc, closer, blockedAtClose>>
       ELSE /\ isChanShut' = TRUE
            /\ chanCondWait' = NotifyAll(chanCondWait)
            /\ closer' = t
            /\ blockedAtClose' = {u \in AllThreads : pc[u] = "get_wait"}
            /\ IF CloseWaitPredicate
                 THEN UNCHANGED <<readerCondWait, pc>>
                 ELSE /\ readerCondWait' = readerCondWait \cup {t}
                      /\ pc' = [pc EXCEPT ![t] = "close_wait"]
  /\ UNCHANGED <<chanQueue, readerThreadCount, ret, pushCalls, accepted, delivered>>

\* A close() that opens the channel again when it returns
ChanCloseWakeReopens(t) ==
  /\ pc[t] = "close_wait"
  /\ t \notin readerCondWait
  /\ IF CloseWaitPredicate
       THEN /\ pc' = [pc EXCEPT ![t] = "idle"]
            /\ isChanShut' = FALSE
            /\ UNCHANGED readerCondWait
       ELSE /\ readerCondWait' = readerCondWait \cup {t}
            /\ UNCHANGED <<pc, isChanShut>>
  /\ UNCHANGED <<chanQueue, readerThreadCount, chanCondWait, ret, histVars>>

\* close() woken in readerCond.wait
ChanCloseWake(t) ==
  /\ pc[t] = "close_wait"
  /\ t \notin readerCondWait
  /\ IF CloseWaitPredicate
       THEN /\ pc' = [pc EXCEPT ![t] = "idle"]
            /\ UNCHANGED readerCondWait
       ELSE /\ readerCondWait' = readerCondWait \cup {t}
            /\ UNCHANGED pc
  /\ UNCHANGED <<isChanShut, chanQueue, readerThreadCount, chanCondWait, ret, histVars>>

\* What isclosed() returns
IsClosedValue == isChanShut

\* size() and isclosed(): the value is read with the mutex held and nothing is written
ChanSize(t) ==
  /\ pc[t] = "idle"
  /\ SizeValue \in Nat
  /\ UNCHANGED <<chanVars, pc, ret, histVars>>

ChanIsClosed(t) ==
  /\ pc[t] = "idle"
  /\ IsClosedValue \in BOOLEAN
  /\ UNCHANGED <<chanVars, pc, ret, histVars>>

\* A spurious wakeup out of chanCond.wait
ChanCondSpurious(t) ==
  /\ t \in chanCondWait
  /\ chanCondWait' = chanCondWait \ {t}
  /\ UNCHANGED <<isChanShut, chanQueue, readerThreadCount, readerCondWait, threadVars, histVars>>

\* A spurious wakeup out of readerCond.wait
ReaderCondSpurious(t) ==
  /\ t \in readerCondWait
  /\ readerCondWait' = readerCondWait \ {t}
  /\ UNCHANGED <<isChanShut, chanQueue, readerThreadCount, chanCondWait, threadVars, histVars>>

----------------------------------------------------------------------------
\* The channel with NThreads client threads, each calling any method at any time

InitChan ==
  /\ isChanShut = FALSE
  /\ chanQueue = <<>>
  /\ readerThreadCount = 0
  /\ chanCondWait = {}
  /\ readerCondWait = {}
  /\ pc = [t \in AllThreads |-> "idle"]
  /\ ret = [t \in AllThreads |-> NoResult]
  /\ pushCalls = 0
  /\ accepted = <<>>
  /\ delivered = <<>>
  /\ closer = 0
  /\ blockedAtClose = {}
  /\ destroyer = 0
  /\ destroyed = FALSE

\* In Spec there is no Logger: its variables stay as they are.
NoLogger ==
  /\ cpc = "none"
  /\ workers = 0
  /\ logLevel = 0
  /\ logDebug = FALSE
  /\ logMsgDebug = <<>>
  /\ pendingBeforeGet = 0
  /\ logQueueThreshold = 0
  /\ logChanThreshold = 0
  /\ logMsgs = <<>>
  /\ writes = <<>>
  /\ sizeRead = <<>>
  /\ logFileOpen = FALSE
  /\ logFileContent = <<>>
  /\ wpc = "none"
  /\ dpc = "none"
  /\ pendingAtShutdown = <<>>
  /\ lateWrites = 0

\* Outside GoSpec there is no Go logger either.
NoGoLogger ==
  /\ goLogLevel = 0
  /\ goQueueSize = 0
  /\ goChanThreshold = 0
  /\ goLogChan = <<>>
  /\ goClosed = FALSE
  /\ ipc = "none"
  /\ gpc = [s \in Producers |-> "none"]
  /\ goPending = [s \in Producers |-> 0]
  /\ goMsg = 0
  /\ goSends = 0
  /\ cgpc = "none"
  /\ goPanicked = FALSE
  /\ goWritten = <<>>

\* No MetaConfig
NoConfig ==
  /\ lang = "none"
  /\ confFile = <<>>
  /\ tmpFile = <<>>
  /\ config = <<>>
  /\ fileLockW = 0
  /\ fileLockR = {}
  /\ confLockW = 0
  /\ confLockR = {}
  /\ cfpc = <<>>
  /\ mapBuffer = <<>>
  /\ streamBad = <<>>
  /\ crashed = FALSE
  /\ contentBefore = <<>>
  /\ contentNew = <<>>

\* No MetaHook
NoHook ==
  /\ hkpc = "none"
  /\ hkMethodPost = FALSE
  /\ hkBodyOk = FALSE
  /\ hkFields = 0
  /\ hkSpawned = 0
  /\ fpc = <<>>
  /\ hkHookExists = <<>>
  /\ hkHookFails = <<>>
  /\ hkResErr = {}
  /\ hkResponse = <<>>

NoMeta == NoConfig /\ NoHook

Init == InitChan /\ NoLogger /\ NoGoLogger /\ NoMeta

\* A thread enters a method only on a channel whose destructor has not returned,
\* and the thread that runs ~chan calls nothing else.  The calls that are inside
\* a wait when ~chan returns go on.
MayCall(t) == ~destroyed /\ destroyer # t

ClientPush(t) ==
  /\ MayCall(t)
  /\ pushCalls < MaxPush
  /\ ChanPush(t, pushCalls + 1)
  /\ UNCHANGED <<lifeVars, loggerVars, metaVars>>

ClientGet(t) == MayCall(t) /\ ChanGet(t) /\ UNCHANGED <<lifeVars, loggerVars, metaVars>>
ClientClose(t) == MayCall(t) /\ ChanClose(t) /\ UNCHANGED <<lifeVars, loggerVars, metaVars>>
ClientSize(t) == MayCall(t) /\ ChanSize(t) /\ UNCHANGED <<lifeVars, loggerVars, metaVars>>
ClientIsClosed(t) == MayCall(t) /\ ChanIsClosed(t) /\ UNCHANGED <<lifeVars, loggerVars, metaVars>>
GetWake(t) == ChanGetWake(t) /\ UNCHANGED <<lifeVars, loggerVars, metaVars>>
CloseWake(t) == ChanCloseWake(t) /\ UNCHANGED <<lifeVars, loggerVars, metaVars>>
GetSpurious(t) == ChanCondSpurious(t) /\ UNCHANGED <<lifeVars, loggerVars, metaVars>>
CloseSpurious(t) == ReaderCondSpurious(t) /\ UNCHANGED <<lifeVars, loggerVars, metaVars>>

\* ~chan: close(), from its entry to the return of close() or to its wait
ClientDestroy(t) ==
  /\ destroyer = 0
  /\ ChanClose(t)
  /\ destroyer' = t
  /\ UNCHANGED <<destroyed, loggerVars, metaVars>>

\* ~chan: close() has returned, the members are destroyed and ~chan returns
ClientDestroyed(t) ==
  /\ destroyer = t
  /\ ~destroyed
  /\ pc[t] = "idle"
  /\ destroyed' = TRUE
  /\ UNCHANGED <<chanVars, threadVars, histVars, destroyer, loggerVars, metaVars>>

Next ==
  \E t \in Threads :
    \/ ClientPush(t)
    \/ ClientGet(t)
    \/ ClientClose(t)
    \/ ClientSize(t)
    \/ ClientIsClosed(t)
    \/ GetWake(t)
    \/ CloseWake(t)
    \/ GetSpurious(t)
    \/ CloseSpurious(t)

\* A woken thread is scheduled: it takes the mutex again and goes on.
Fairness ==
  \A t \in Threads : WF_vars(GetWake(t)) /\ WF_vars(CloseWake(t))

Spec == Init /\ [][Next]_vars /\ Fairness

\* The channel with its destructor: the methods above, and ~chan run once by
\* any one thread.
LifeNext ==
  \/ Next
  \/ \E t \in Threads : ClientDestroy(t)
  \/ \E t \in Threads : ClientDestroyed(t)

LifeFairness ==
  \A t \in Threads :
    WF_vars(GetWake(t)) /\ WF_vars(CloseWake(t)) /\ WF_vars(ClientDestroyed(t))

LifeSpec == Init /\ [][LifeNext]_vars /\ LifeFairness

----------------------------------------------------------------------------
\* The channel with NProducers producer threads and one consumer thread, and a
\* thread that closes it.  Each producer pushes values that carry its number
\* and the number of the push among its own pushes.

ProducerValue(p, k) == p * (MaxFifoPush + 1) + k
ProducerOf(val) == val \div (MaxFifoPush + 1)
NumberOf(val) == val % (MaxFifoPush + 1)
PushedBy(p) == {i \in DOMAIN accepted : ProducerOf(accepted[i]) = p}

ProducerPush(p) ==
  /\ MayCall(p)
  /\ pushCalls < MaxFifoPush
  /\ ChanPush(p, ProducerValue(p, Cardinality(PushedBy(p)) + 1))
  /\ UNCHANGED <<lifeVars, loggerVars, metaVars>>

FifoNext ==
  \/ \E p \in Producers : ProducerPush(p)
  \/ ClientGet(Worker)
  \/ GetWake(Worker)
  \/ GetSpurious(Worker)
  \/ ClientClose(Dtor)
  \/ CloseWake(Dtor)
  \/ CloseSpurious(Dtor)

FifoFairness == WF_vars(GetWake(Worker)) /\ WF_vars(CloseWake(Dtor))

FifoSpec == Init /\ [][FifoNext]_vars /\ FifoFairness

----------------------------------------------------------------------------
\* logger::Logger: one worker thread, NProducers threads that log, one thread
\* that destroys the Logger

\* enum LOGLEVEL
ERROR == 1
WARN == 2
INFO == 3
LOGLEVEL == {ERROR, WARN, INFO}

\* The record log() writes for the pressure warning (it is made by the worker and
\* never goes through the channel)
PressureRecord == -1

\* this->logChanThreshold = logQueueThreshold / 2
ChanThresholdWhole(queueThreshold) == queueThreshold
ChanThreshold(queueThreshold) == queueThreshold \div 2

\* The entry of Logger(logLevel, logPath, logToStd, logDebug, logQueueThreshold):
\* the arguments are any level, any flag and any positive threshold; no file is
\* open and no worker runs.
InitLogger ==
  /\ cpc = "open"
  /\ workers = 0
  /\ logLevel \in LOGLEVEL
  /\ logDebug \in BOOLEAN
  /\ logQueueThreshold \in 1 .. MaxQueueThreshold
  /\ logChanThreshold = 0
  /\ logFileOpen = FALSE
  /\ logFileContent = <<>>
  /\ wpc = "none"
  /\ dpc = "none"
  /\ pendingAtShutdown = <<>>
  /\ lateWrites = 0
  /\ logMsgs = <<>>
  /\ logMsgDebug = <<>>
  /\ pendingBeforeGet = 0
  /\ writes = <<>>
  /\ sizeRead = <<>>

\* if (!logFile.is_open()) throw runtime_error(...)
OpenFailureIgnored(isOpen) == FALSE
OpenFailed(isOpen) == ~isOpen

\* Logger(...): logFile.open(logPath, ...), which succeeds or fails.  On failure
\* the constructor throws; the members are destroyed, ~chan among them.  On
\* success the fields are set.
CtorOpenFile ==
  /\ cpc = "open"
  /\ \E isOpen \in BOOLEAN :
       /\ logFileOpen' = isOpen
       /\ IF OpenFailed(isOpen)
            THEN /\ cpc' = "threw"
                 /\ ChanClose(Dtor)
                 /\ destroyer' = Dtor
                 /\ destroyed' = TRUE
                 /\ UNCHANGED logChanThreshold
            ELSE /\ cpc' = "start"
                 /\ logChanThreshold' = ChanThreshold(logQueueThreshold)
                 /\ UNCHANGED <<chanVars, threadVars, histVars, lifeVars>>
  /\ UNCHANGED <<goVars, metaVars, workers, logLevel, logDebug, logQueueThreshold, msgVars, logFileContent,
                 wpc, dpc, pendingAtShutdown, lateWrites, writes, sizeRead>>

\* Logger(...): startLogWorker(), then the constructor returns
CtorStartWorker ==
  /\ cpc = "start"
  /\ workers' = workers + 1
  /\ wpc' = "get"
  /\ dpc' = "alive"
  /\ cpc' = "done"
  /\ UNCHANGED <<goVars, metaVars, chanVars, threadVars, histVars, lifeVars, logConfig, msgVars, logFileOpen,
                 logFileContent, pendingAtShutdown, lateWrites, writes, sizeRead>>

\* A thread logs on a Logger whose constructor has returned and whose
\* destructor has not.
MayLog(p) == cpc = "done" /\ MayCall(p)

\* debuginfo of the message of a log call: getDebugInfo(FILE, LINE) if
\* (logDebug), else the empty string
CallDebugInfo == logDebug

\* logChan.push({msg, debuginfo, level}): the message is record number
\* pushCalls + 1
LogPush(p, level) ==
  /\ MayLog(p)
  /\ pushCalls < MaxPush
  /\ ChanPush(p, pushCalls + 1)
  /\ logMsgs' = Append(logMsgs, level)
  /\ logMsgDebug' = Append(logMsgDebug, CallDebugInfo)
  /\ pendingBeforeGet' = IF delivered = <<>> /\ ~PushRefused
                           THEN pendingBeforeGet + 1 ELSE pendingBeforeGet
  /\ UNCHANGED <<lifeVars, goVars, metaVars, ctorVars, logConfig, logFileOpen, logFileContent, wpc, dpc,
                 pendingAtShutdown, lateWrites, writes, sizeRead>>

\* if (logLevel>ERROR) in LogWarn
WarnEnabled == logLevel > ERROR

\* if (logLevel>WARN) in LogInfo
InfoEnabledAboveError == logLevel > ERROR
InfoEnabled == logLevel > WARN

\* LogError(msg, FILE, LINE)
LogError(p) == LogPush(p, ERROR)

\* LogWarn(msg, FILE, LINE)
LogWarn(p) ==
  IF WarnEnabled THEN LogPush(p, WARN) ELSE MayLog(p) /\ UNCHANGED vars

\* LogInfo(msg, FILE, LINE)
LogInfo(p) ==
  IF InfoEnabled THEN LogPush(p, INFO) ELSE MayLog(p) /\ UNCHANGED vars

\* The level and the debuginfo of the message log() is given: those of the
\* pushed LogMessage, or WARN and getDebugInfo(__FILE__, __LINE__) for the
\* pressure warning
MsgLevel(rec) == IF rec = PressureRecord THEN WARN ELSE logMsgs[rec]
MsgDebugInfo(rec) == IF rec = PressureRecord THEN TRUE ELSE logMsgDebug[rec]

\* The tag log() writes in the case of its switch for the level
LevelTag(level) ==
  CASE level = ERROR -> "ERROR"
    [] level = WARN -> "WARN"
    [] level = INFO -> "INFO"

\* log(msg): logFile << outstr << endl.  ~Logger closes logFile without taking
\* ioMutex and does not wait for the worker, so a write can come after the close:
\* the stream is then closed or destroyed, and the record is written or lost.
\* writes keeps every record given to log(), with the record the worker had
\* dequeued at that moment.
LogWrite(rec) ==
  /\ \/ logFileContent' = Append(logFileContent, rec)
     \/ ~logFileOpen /\ UNCHANGED logFileContent
  /\ lateWrites' = IF dpc = "done" THEN lateWrites + 1 ELSE lateWrites
  /\ writes' = Append(writes, [rec |-> rec, for |-> ret[Worker].val,
                               tag |-> LevelTag(MsgLevel(rec)),
                               debug |-> MsgDebugInfo(rec)])
  /\ UNCHANGED <<goVars, metaVars, ctorVars, logConfig, msgVars, logFileOpen, dpc, pendingAtShutdown, sizeRead>>

\* The worker: res = logChan.get()
WorkerGet ==
  /\ wpc = "get"
  /\ ChanGet(Worker)
  /\ wpc' = "got"
  /\ UNCHANGED <<lifeVars, goVars, metaVars, ctorVars, logConfig, msgVars, logFileOpen, logFileContent, dpc,
                 pendingAtShutdown, lateWrites, writes, sizeRead>>

\* logChan.size() > logChanThreshold
PressureHigh(size) == size > logChanThreshold

\* The worker: if (res.second), then if (logChan.size() > logChanThreshold)
WorkerGot ==
  /\ wpc = "got"
  /\ pc[Worker] = "idle"
  /\ IF ~ret[Worker].ok
       THEN wpc' = "exited" /\ UNCHANGED sizeRead
       ELSE /\ wpc' = IF PressureHigh(SizeValue) THEN "warn" ELSE "log"
            /\ sizeRead' = Append(sizeRead, SizeValue)
  /\ UNCHANGED <<chanVars, threadVars, histVars, lifeVars, goVars, metaVars, ctorVars, logConfig, msgVars, logFileOpen,
                 logFileContent, dpc, pendingAtShutdown, lateWrites, writes>>

\* A worker that goes back to get() after the pressure warning
WorkerWarnDropsRecord ==
  /\ wpc = "warn"
  /\ LogWrite(PressureRecord)
  /\ wpc' = "get"
  /\ UNCHANGED <<chanVars, threadVars, histVars, lifeVars>>

\* The worker: log({"Log Queue is under high pressure!", ..., WARN})
WorkerWarn ==
  /\ wpc = "warn"
  /\ LogWrite(PressureRecord)
  /\ wpc' = "log"
  /\ UNCHANGED <<chanVars, threadVars, histVars, lifeVars>>

\* The worker: log(res.first)
WorkerLog ==
  /\ wpc = "log"
  /\ LogWrite(ret[Worker].val)
  /\ wpc' = "get"
  /\ UNCHANGED <<chanVars, threadVars, histVars, lifeVars>>

\* The worker touches the Logger after ~Logger has returned: logChan, logFile
\* and ioMutex are destroyed, and the access is either carried out as on the
\* live object (the actions above) or ends the worker.
WorkerFault ==
  /\ dpc = "done"
  /\ \/ wpc \in {"get", "warn", "log"}
     \/ wpc = "got" /\ pc[Worker] = "idle" /\ ret[Worker].ok
  /\ wpc' = "faulted"
  /\ UNCHANGED <<chanVars, threadVars, histVars, lifeVars, goVars, metaVars, ctorVars, logConfig, msgVars,
                 logFileOpen, logFileContent, dpc, pendingAtShutdown, lateWrites,
                 writes, sizeRead>>

\* ~Logger: closeLogWorker(), which is logChan.close()
DtorCloseWorker ==
  /\ dpc = "alive"
  /\ ChanClose(Dtor)
  /\ dpc' = "closing"
  /\ pendingAtShutdown' = accepted
  /\ UNCHANGED <<lifeVars, goVars, metaVars, ctorVars, logConfig, msgVars, logFileOpen, logFileContent, wpc, lateWrites, writes, sizeRead>>

\* A ~Logger that writes a last record itself before it closes the file
DtorCloseFileWritesRecord ==
  /\ dpc = "closing"
  /\ pc[Dtor] = "idle"
  /\ logFileContent' = Append(logFileContent, PressureRecord)
  /\ logFileOpen' = FALSE
  /\ dpc' = "file_closed"
  /\ UNCHANGED <<chanVars, threadVars, histVars, lifeVars, goVars, metaVars, ctorVars, logConfig, msgVars,
                 wpc, pendingAtShutdown, lateWrites, writes, sizeRead>>

\* ~Logger: logFile.close()
DtorCloseFile ==
  /\ dpc = "closing"
  /\ pc[Dtor] = "idle"
  /\ logFileOpen' = FALSE
  /\ dpc' = "file_closed"
  /\ UNCHANGED <<chanVars, threadVars, histVars, lifeVars, goVars, metaVars, ctorVars, logConfig, msgVars,
                 logFileContent, wpc, pendingAtShutdown, lateWrites,
                 writes, sizeRead>>

\* ~Logger: the members are destroyed, ~chan calls close(); then ~Logger returns
DtorMembers ==
  /\ dpc = "file_closed"
  /\ ChanClose(Dtor)
  /\ pc'[Dtor] = "idle"
  /\ destroyer' = Dtor
  /\ destroyed' = TRUE
  /\ dpc' = "done"
  /\ UNCHANGED <<goVars, metaVars, ctorVars, logConfig, msgVars, logFileOpen, logFileContent, wpc,
                 pendingAtShutdown, lateWrites, writes, sizeRead>>

LoggerInit == InitChan /\ InitLogger /\ NoGoLogger /\ NoMeta

LoggerNext ==
  \/ CtorOpenFile
  \/ CtorStartWorker
  \/ WorkerFault
  \/ \E p \in Producers : LogError(p)
  \/ \E p \in Producers : LogWarn(p)
  \/ \E p \in Producers : LogInfo(p)
  \/ WorkerGet
  \/ GetWake(Worker)
  \/ WorkerGot
  \/ WorkerWarn
  \/ WorkerLog
  \/ DtorCloseWorker
  \/ CloseWake(Dtor)
  \/ DtorCloseFile
  \/ DtorMembers
  \/ GetSpurious(Worker)
  \/ CloseSpurious(Dtor)

\* The worker and the destroying thread are scheduled.
LoggerFairness ==
  /\ WF_vars(GetWake(Worker)) /\ WF_vars(CloseWake(Dtor))
  /\ WF_vars(WorkerGet) /\ WF_vars(WorkerGot) /\ WF_vars(WorkerWarn) /\ WF_vars(WorkerLog)
  /\ WF_vars(DtorCloseFile) /\ WF_vars(DtorMembers)
  /\ WF_vars(CtorOpenFile) /\ WF_vars(CtorStartWorker)

LoggerSpec == LoggerInit /\ [][LoggerNext]_vars /\ LoggerFairness

----------------------------------------------------------------------------
\* Logger of logger.go: the goroutine that calls InitLogger, NProducers
\* goroutines that log and one goroutine that calls CloseLogger.  l.logChan is
\* a buffered Go channel: a send on it blocks while the buffer is full and
\* panics once the channel is closed, a receive takes the buffered messages
\* and then, on a closed channel, yields ok = false.  The goroutines that log
\* and close are given the Logger that InitLogger builds.

\* const ( ERROR LOGLEVEL = iota; WARN; INFO )
GoERROR == 0
GoWARN == 1
GoINFO == 2

\* The entry of InitLogger(logLevel, logPath, logToStd, logDebug, logQueueSize)
GoInit ==
  /\ goLogLevel \in {GoERROR, GoWARN, GoINFO}
  /\ goQueueSize \in 1 .. MaxGoQueueSize
  /\ goChanThreshold = 0
  /\ goLogChan = <<>>
  /\ goClosed = FALSE
  /\ ipc = "open"
  /\ gpc = [s \in Producers |-> "idle"]
  /\ goPending = [s \in Producers |-> 0]
  /\ goMsg = 0
  /\ goSends = 0
  /\ cgpc = "idle"
  /\ goPanicked = FALSE
  /\ goWritten = <<>>

\* The program runs and the Logger has been built
GoLoggerBuilt == ~goPanicked /\ ipc \notin {"open", "failed"}

\* InitLogger up to logger.startLogWorker(): os.OpenFile fails and InitLogger
\* returns the error, or the fields are set, the channel is made and
\* startLogWorker() is called in the same goroutine
GoInitLogger ==
  /\ ipc = "open"
  /\ \/ ipc' = "failed" /\ UNCHANGED goChanThreshold
     \/ ipc' = "recv" /\ goChanThreshold' = goQueueSize \div 2
  /\ UNCHANGED <<goLogLevel, goQueueSize, goLogChan, goClosed, gpc, goPending, goMsg,
                 goSends, cgpc, goPanicked, goWritten>>
  /\ UNCHANGED <<chanVars, threadVars, histVars, lifeVars, hppVars, metaVars>>

\* startLogWorker: case msg, ok := <-l.logChan.  With ok = false
\* startLogWorker returns, and InitLogger returns after it.
GoWorkerReceive ==
  /\ ~goPanicked
  /\ ipc = "recv"
  /\ goLogChan # <<>> \/ goClosed
  /\ IF goLogChan # <<>>
       THEN /\ goMsg' = Head(goLogChan)
            /\ goLogChan' = Tail(goLogChan)
            /\ ipc' = "got"
       ELSE /\ ipc' = "returned"
            /\ UNCHANGED <<goMsg, goLogChan>>
  /\ UNCHANGED <<goLogLevel, goQueueSize, goChanThreshold, goClosed, gpc, goPending,
                 goSends, cgpc, goPanicked, goWritten>>
  /\ UNCHANGED <<chanVars, threadVars, histVars, lifeVars, hppVars, metaVars>>

\* startLogWorker: if len(l.logChan) > l.logChanThreshold
GoWorkerGot ==
  /\ ~goPanicked
  /\ ipc = "got"
  /\ ipc' = IF Len(goLogChan) > goChanThreshold THEN "warn" ELSE "log"
  /\ UNCHANGED <<goLogLevel, goQueueSize, goChanThreshold, goLogChan, goClosed, gpc,
                 goPending, goMsg, goSends, cgpc, goPanicked, goWritten>>
  /\ UNCHANGED <<chanVars, threadVars, histVars, lifeVars, hppVars, metaVars>>

\* startLogWorker: l.log(&LogMessage{"Log Queue is under high pressure!", ..., WARN})
GoWorkerWarn ==
  /\ ~goPanicked
  /\ ipc = "warn"
  /\ goWritten' = Append(goWritten, GoWARN)
  /\ ipc' = "log"
  /\ UNCHANGED <<goLogLevel, goQueueSize, goChanThreshold, goLogChan, goClosed, gpc,
                 goPending, goMsg, goSends, cgpc, goPanicked>>
  /\ UNCHANGED <<chanVars, threadVars, histVars, lifeVars, hppVars, metaVars>>

\* startLogWorker: l.log(msg)
GoWorkerLog ==
  /\ ~goPanicked
  /\ ipc = "log"
  /\ goWritten' = Append(goWritten, goMsg)
  /\ ipc' = "recv"
  /\ UNCHANGED <<goLogLevel, goQueueSize, goChanThreshold, goLogChan, goClosed, gpc,
                 goPending, goMsg, goSends, cgpc, goPanicked>>
  /\ UNCHANGED <<chanVars, threadVars, histVars, lifeVars, hppVars, metaVars>>

\* l.logChan <- msg on a channel that is closed (panic), has room in its
\* buffer (the message is buffered) or is full (the goroutine stays in the send)
GoChanSend(s, level) ==
  IF goClosed
    THEN /\ goPanicked' = TRUE
         /\ gpc' = [gpc EXCEPT ![s] = "panicked"]
         /\ UNCHANGED <<goLogChan, goPending>>
    ELSE IF Len(goLogChan) < goQueueSize
      THEN /\ goLogChan' = Append(goLogChan, level)
           /\ gpc' = [gpc EXCEPT ![s] = "idle"]
           /\ UNCHANGED <<goPanicked, goPending>>
      ELSE /\ gpc' = [gpc EXCEPT ![s] = "send"]
           /\ goPending' = [goPending EXCEPT ![s] = level]
           /\ UNCHANGED <<goPanicked, goLogChan>>

\* l.logChan <- &LogMessage{msg, debuginfo, level} in LogError, LogWarn, LogInfo
GoSend(s, level) ==
  /\ GoLoggerBuilt
  /\ gpc[s] = "idle"
  /\ goSends < MaxGoSend
  /\ goSends' = goSends + 1
  /\ GoChanSend(s, level)
  /\ UNCHANGED <<goLogLevel, goQueueSize, goChanThreshold, goClosed, ipc, goMsg, cgpc,
                 goWritten>>
  /\ UNCHANGED <<chanVars, threadVars, histVars, lifeVars, hppVars, metaVars>>

\* A call that is suppressed returns at once
GoSkip(s) == GoLoggerBuilt /\ gpc[s] = "idle" /\ UNCHANGED vars

\* Logger.LogError, Logger.LogWarn, Logger.LogInfo
GoLogError(s) == GoSend(s, GoERROR)
GoLogWarn(s) == IF goLogLevel > GoERROR THEN GoSend(s, GoWARN) ELSE GoSkip(s)
GoLogInfo(s) == IF goLogLevel > GoWARN THEN GoSend(s, GoINFO) ELSE GoSkip(s)

\* A goroutine blocked in its send goes on when the buffer has room or the
\* channel is closed
GoSendWake(s) ==
  /\ ~goPanicked
  /\ gpc[s] = "send"
  /\ goClosed \/ Len(goLogChan) < goQueueSize
  /\ GoChanSend(s, goPending[s])
  /\ UNCHANGED <<goLogLevel, goQueueSize, goChanThreshold, goClosed, ipc, goMsg, goSends,
                 cgpc, goWritten>>
  /\ UNCHANGED <<chanVars, threadVars, histVars, lifeVars, hppVars, metaVars>>

\* CloseLogger: l.closeLogWorker(), which is close(l.logChan)
GoCloseLogWorker ==
  /\ GoLoggerBuilt
  /\ cgpc = "idle"
  /\ goClosed' = TRUE
  /\ cgpc' = "closed"
  /\ UNCHANGED <<goLogLevel, goQueueSize, goChanThreshold, goLogChan, ipc, gpc, goPending,
                 goMsg, goSends, goPanicked, goWritten>>
  /\ UNCHANGED <<chanVars, threadVars, histVars, lifeVars, hppVars, metaVars>>

\* CloseLogger: l.logFile.Close()
GoCloseFile ==
  /\ ~goPanicked
  /\ cgpc = "closed"
  /\ cgpc' = "done"
  /\ UNCHANGED <<goLogLevel, goQueueSize, goChanThreshold, goLogChan, goClosed, ipc, gpc,
                 goPending, goMsg, goSends, goPanicked, goWritten>>
  /\ UNCHANGED <<chanVars, threadVars, histVars, lifeVars, hppVars, metaVars>>

GoSpecInit == InitChan /\ NoLogger /\ GoInit /\ NoMeta

GoNext ==
  \/ GoInitLogger
  \/ GoWorkerReceive
  \/ GoWorkerGot
  \/ GoWorkerWarn
  \/ GoWorkerLog
  \/ \E s \in Producers : GoLogError(s)
  \/ \E s \in Producers : GoLogWarn(s)
  \/ \E s \in Producers : GoLogInfo(s)
  \/ \E s \in Producers : GoSendWake(s)
  \/ GoCloseLogWorker
  \/ GoCloseFile

\* Every goroutine that can go on is scheduled.
GoFairness ==
  /\ WF_vars(GoInitLogger) /\ WF_vars(GoWorkerReceive) /\ WF_vars(GoWorkerGot)
  /\ WF_vars(GoWorkerWarn) /\ WF_vars(GoWorkerLog) /\ WF_vars(GoCloseFile)
  /\ \A s \in Producers : WF_vars(GoSendWake(s))

GoSpec == GoSpecInit /\ [][GoNext]_vars /\ GoFairness

----------------------------------------------------------------------------
\* MetaHook of metahook.go: one update request.  updateHandler starts one
\* goroutine for each field of the request; the four loops over the string,
\* bool, double and list fields have the same body, and a field here is a field
\* of any of the four kinds, in the order of the loops.

Fields == 1 .. MaxFields

\* The fields of the request
RequestFields == 1 .. hkFields

\* Nothing has been written to the ResponseWriter
NoResponse == [status |-> 0, err |-> {}, running |-> {}]

\* The goroutines of the request that have been started (wg.Add(1)) and have
\* not returned (defer wg.Done())
Running == {f \in Fields : fpc[f] \notin {"none", "done"}}

\* The fields whose hook exists and returns an error
FailedHooks == {f \in RequestFields : hkHookExists[f] /\ hkHookFails[f]}

HookInit ==
  /\ hkpc = "method"
  /\ hkMethodPost \in BOOLEAN
  /\ hkBodyOk \in BOOLEAN
  /\ hkFields \in 0 .. MaxFields
  /\ hkSpawned = 0
  /\ fpc = [f \in Fields |-> "none"]
  /\ hkHookExists \in [Fields -> BOOLEAN]
  /\ hkHookFails \in [Fields -> BOOLEAN]
  /\ hkResErr = {}
  /\ hkResponse = NoResponse

\* if r.Method != "POST"
HandlerMethod ==
  /\ hkpc = "method"
  /\ IF hkMethodPost
       THEN hkpc' = "decode" /\ UNCHANGED hkResponse
       ELSE /\ hkpc' = "returned"
            /\ hkResponse' = [status |-> 405, err |-> {}, running |-> Running]
  /\ UNCHANGED <<hkMethodPost, hkBodyOk, hkFields, hkSpawned, fpc, hkHookExists,
                 hkHookFails, hkResErr>>
  /\ UNCHANGED <<chanVars, threadVars, histVars, lifeVars, loggerVars, confVars>>

\* err := json.NewDecoder(r.Body).Decode(&req)
HandlerDecode ==
  /\ hkpc = "decode"
  /\ IF hkBodyOk
       THEN hkpc' = "spawn" /\ UNCHANGED hkResponse
       ELSE /\ hkpc' = "returned"
            /\ hkResponse' = [status |-> 400, err |-> {}, running |-> Running]
  /\ UNCHANGED <<hkMethodPost, hkBodyOk, hkFields, hkSpawned, fpc, hkHookExists,
                 hkHookFails, hkResErr>>
  /\ UNCHANGED <<chanVars, threadVars, histVars, lifeVars, loggerVars, confVars>>

\* One pass of a loop over the fields: wg.Add(1); go func(field) {...}(kv)
HandlerSpawn ==
  /\ hkpc = "spawn"
  /\ hkSpawned < hkFields
  /\ hkSpawned' = hkSpawned + 1
  /\ fpc' = [fpc EXCEPT ![hkSpawned + 1] = "set"]
  /\ UNCHANGED <<hkpc, hkMethodPost, hkBodyOk, hkFields, hkHookExists,
                 hkHookFails, hkResErr, hkResponse>>
  /\ UNCHANGED <<chanVars, threadVars, histVars, lifeVars, loggerVars, confVars>>

\* After the loops, with no wg.Wait() in between:
\* json.NewEncoder(w).Encode(res).  res.Err is read without resMutex, as it is
\* at that moment.
HandlerRespond ==
  /\ hkpc = "spawn"
  /\ hkSpawned = hkFields
  /\ hkResponse' = [status |-> 200, err |-> hkResErr, running |-> Running]
  /\ hkpc' = "returned"
  /\ UNCHANGED <<hkMethodPost, hkBodyOk, hkFields, hkSpawned, fpc, hkHookExists,
                 hkHookFails, hkResErr>>
  /\ UNCHANGED <<chanVars, threadVars, histVars, lifeVars, loggerVars, confVars>>

\* The goroutine of a field: m.metaConfig.SetString(&field.Key, &field.Value)
\* and the lookup of the hook
FieldSet(f) ==
  /\ fpc[f] = "set"
  /\ fpc' = [fpc EXCEPT ![f] = IF hkHookExists[f] THEN "hook" ELSE "done"]
  /\ UNCHANGED <<hkpc, hkMethodPost, hkBodyOk, hkFields, hkSpawned, hkHookExists,
                 hkHookFails, hkResErr, hkResponse>>
  /\ UNCHANGED <<chanVars, threadVars, histVars, lifeVars, loggerVars, confVars>>

\* The goroutine of a field: err := hook(field.Key, field.Value)
FieldHook(f) ==
  /\ fpc[f] = "hook"
  /\ fpc' = [fpc EXCEPT ![f] = IF hkHookFails[f] THEN "append" ELSE "done"]
  /\ UNCHANGED <<hkpc, hkMethodPost, hkBodyOk, hkFields, hkSpawned, hkHookExists,
                 hkHookFails, hkResErr, hkResponse>>
  /\ UNCHANGED <<chanVars, threadVars, histVars, lifeVars, loggerVars, confVars>>

\* The goroutine of a field: res.Err = append(res.Err, err) under resMutex
FieldAppend(f) ==
  /\ fpc[f] = "append"
  /\ hkResErr' = hkResErr \cup {f}
  /\ fpc' = [fpc EXCEPT ![f] = "done"]
  /\ UNCHANGED <<hkpc, hkMethodPost, hkBodyOk, hkFields, hkSpawned, hkHookExists,
                 hkHookFails, hkResponse>>
  /\ UNCHANGED <<chanVars, threadVars, histVars, lifeVars, loggerVars, confVars>>

HookSpecInit == InitChan /\ NoLogger /\ NoGoLogger /\ NoConfig /\ HookInit

HookNext ==
  \/ HandlerMethod
  \/ HandlerDecode
  \/ HandlerSpawn
  \/ HandlerRespond
  \/ \E f \in Fields : FieldSet(f)
  \/ \E f \in Fields : FieldHook(f)
  \/ \E f \in Fields : FieldAppend(f)

\* The handler and the goroutines are scheduled.
HookFairness ==
  /\ WF_vars(HandlerMethod) /\ WF_vars(HandlerDecode)
  /\ WF_vars(HandlerSpawn) /\ WF_vars(HandlerRespond)
  /\ \A f \in Fields : WF_vars(FieldSet(f)) /\ WF_vars(FieldHook(f)) /\ WF_vars(FieldAppend(f))

HookSpec == HookSpecInit /\ [][HookNext]_vars /\ HookFairness

----------------------------------------------------------------------------
\* MetaConfig of dataloader.hpp and dataloader.go.  A file is the sequence of
\* its characters; a key and a value are sequences of characters; the config
\* map is a function from its keys to their values.

Newline == "\n"
Quote == "\""
Equals == "="
Space == " "
CommentChars == {"#", "/"}

\* mapBuffer.insert({curKey, curVal}): the first pair of a key stays
MapInsert(m, key, val) ==
  IF key \in DOMAIN m THEN m
  ELSE [k \in DOMAIN m \cup {key} |-> IF k = key THEN val ELSE m[k]]

\* config[key] = value
MapAssign(m, key, val) ==
  [k \in DOMAIN m \cup {key} |-> IF k = key THEN val ELSE m[k]]

\* The empty map
EmptyMap == [k \in {} |-> <<>>]

\* What the parser of ReadFromDisk leaves: whether it reached the end of the
\* file without an error, and mapBuffer as it is at that moment
ParseResult(ok, m) == [ok |-> ok, map |-> m]

RECURSIVE ParseTop(_, _, _), ParseComment(_, _, _), ParseKey(_, _, _, _),
          ParseValue(_, _, _, _, _)

\* The outer loop of the parser, about to read character i of file f
ParseTop(f, i, m) ==
  IF i > Len(f) THEN ParseResult(TRUE, m)
  ELSE IF f[i] = Newline \/ f[i] = Space THEN ParseTop(f, i + 1, m)
  ELSE IF f[i] \in CommentChars THEN ParseComment(f, i + 1, m)
  ELSE ParseKey(f, i, m, <<>>)

\* Skip til EOF or newline
ParseComment(f, i, m) ==
  IF i > Len(f) THEN ParseResult(TRUE, m)
  ELSE IF f[i] = Newline THEN ParseTop(f, i + 1, m)
  ELSE ParseComment(f, i + 1, m)

\* Eat key: character i goes to curKey, then the next character is read; after
\* the '=' the next character must be '"'
ParseKey(f, i, m, curKey) ==
  IF i + 1 > Len(f) \/ f[i + 1] = Newline THEN ParseResult(FALSE, m)
  ELSE IF f[i + 1] # Equals THEN ParseKey(f, i + 1, m, Append(curKey, f[i]))
  ELSE IF i + 2 > Len(f) \/ f[i + 2] # Quote THEN ParseResult(FALSE, m)
  ELSE ParseValue(f, i + 3, m, Append(curKey, f[i]), <<>>)

\* Eat value: up to the next '"'; then the pair is inserted
ParseValue(f, i, m, curKey, curVal) ==
  IF i > Len(f) THEN ParseResult(FALSE, m)
  ELSE IF f[i] = Quote THEN ParseTop(f, i + 1, MapInsert(m, curKey, curVal))
  ELSE ParseValue(f, i + 1, m, curKey, Append(curVal, f[i]))

\* The parser of ReadFromDisk on the content f
Parse(f) == ParseTop(f, 1, EmptyMap)

\* The text of a comment line WriteToDisk writes
CommentLine == <<"#", "a", Newline>>

\* kv.first << "=" << "\"" << kv.second << "\"" << "\n"
DeparsePair(key, val) == key \o <<Equals, Quote>> \o val \o <<Quote, Newline>>

RECURSIVE DeparsePairs(_, _)
\* The pairs of m in the order of the keys in the sequence order
DeparsePairs(m, order) ==
  IF order = <<>> THEN <<>>
  ELSE DeparsePair(Head(order), m[Head(order)]) \o DeparsePairs(m, Tail(order))

\* What WriteToDisk writes for the map m, its pairs iterated in the order given
Deparse(m, order) ==
  CommentLine \o CommentLine \o DeparsePairs(m, order) \o CommentLine

\* The orders in which the pairs of m can be iterated
IterationOrders(m) ==
  {order \in [1 .. Cardinality(DOMAIN m) -> DOMAIN m] :
     \A i, j \in DOMAIN order : i # j => order[i] # order[j]}

ConfThreads == 1 .. NConfThreads

\* The places of a thread whose call has returned
Returned == {"get_ok", "set_ok", "read_ok", "read_error", "write_ok", "write_error"}

\* The keys and values the setters are called with
SetKeys == {<<"b">>}
SetValues == {<<"a">>}

\* A config file with a comment, a blank and a pair, and the key of a second
\* pair
SampleFile ==
  <<"#", Newline, Space, "a", Equals, Quote, "a", Quote, "b">>

\* The contents the file at configPath starts with: the sample file cut at any
\* position, a key twice, a newline inside a key and a value without its quote
FileInputs ==
  {SubSeq(SampleFile, 1, n) : n \in 0 .. Len(SampleFile)}
    \cup {<<"a", Equals, Quote, Quote, "a", Equals, Quote, "b", Quote>>,
          <<"a", Equals, Quote, Quote, "b", Newline>>,
          <<"b", Equals, "a">>}

\* The config member: in dataloader.go CreateMetaConfig leaves the map nil, and
\* ReadFromDisk is what makes it a map
NewConfig(l) == [nil |-> (l = "go"), map |-> EmptyMap]

\* For the runs that are about the locks: the sample file, which stops in its
\* second key, and the sample file up to the end of its pair
LockFileInputs == {SampleFile, SubSeq(SampleFile, 1, Len(SampleFile) - 1)}

\* A MetaConfig as constructed, for a file at configPath out of the set files
ConfigInitWith(files) ==
  /\ lang \in {"hpp", "go"}
  /\ confFile \in files
  /\ tmpFile = <<>>
  /\ config = NewConfig(lang)
  /\ fileLockW = 0
  /\ fileLockR = {}
  /\ confLockW = 0
  /\ confLockR = {}
  /\ cfpc = [t \in ConfThreads |-> "idle"]
  /\ mapBuffer = [t \in ConfThreads |-> EmptyMap]
  /\ streamBad = [t \in ConfThreads |-> FALSE]
  /\ crashed = FALSE
  /\ contentBefore = confFile
  /\ contentNew = confFile

ConfigInit == ConfigInitWith(FileInputs)

\* The threads that are inside a lock call for exclusive ownership
ConfWritersWaiting == {t \in ConfThreads : cfpc[t] \in {"s_lock", "r_conflock"}}
FileWritersWaiting == {t \in ConfThreads : cfpc[t] = "w_lock"}

\* shared_lock / RLock succeeds: no exclusive owner; a sync.RWMutex moreover
\* admits no new reader while a Lock call is waiting
CanRLockConf == confLockW = 0 /\ (lang = "go" => ConfWritersWaiting = {})
CanRLockFile == fileLockW = 0 /\ (lang = "go" => FileWritersWaiting = {})

\* unique_lock / Lock succeeds: no owner of either kind
CanLockConf == confLockW = 0 /\ confLockR = {}
CanLockFile == fileLockW = 0 /\ fileLockR = {}

\* A thread enters its method: "g_lock" a getter, "s_lock" a setter, "r_lock"
\* ReadFromDisk, "w_lock" WriteToDisk
ConfCall(t, entry) ==
  /\ ~crashed
  /\ cfpc[t] = "idle"
  /\ cfpc' = [cfpc EXCEPT ![t] = entry]
  /\ UNCHANGED <<lang, confFile, tmpFile, config, fileLockW, fileLockR, confLockW,
                 confLockR, mapBuffer, streamBad, crashed, contentBefore, contentNew>>
  /\ UNCHANGED <<chanVars, threadVars, histVars, lifeVars, loggerVars, hookVars>>

CallGet(t) == ConfCall(t, "g_lock")
CallSet(t) == ConfCall(t, "s_lock")
CallRead(t) == ConfCall(t, "r_lock")
CallWrite(t) == ConfCall(t, "w_lock")

\* The step of a thread from place "from" to place "to"
ConfStep(t, from, to) ==
  /\ ~crashed
  /\ cfpc[t] = from
  /\ cfpc' = [cfpc EXCEPT ![t] = to]
  /\ UNCHANGED <<lang, crashed>>
  /\ UNCHANGED <<chanVars, threadVars, histVars, lifeVars, loggerVars, hookVars>>

\* A getter: shared_lock<shared_mutex> confLock(configLock)
GetLock(t) ==
  /\ ConfStep(t, "g_lock", "g_held")
  /\ CanRLockConf
  /\ confLockR' = confLockR \cup {t}
  /\ UNCHANGED <<confFile, tmpFile, config, fileLockW, fileLockR, confLockW,
                 mapBuffer, streamBad, contentBefore, contentNew>>

\* A getter: the value is read and the lock released on return
GetReturn(t) ==
  /\ ConfStep(t, "g_held", "get_ok")
  /\ confLockR' = confLockR \ {t}
  /\ UNCHANGED <<confFile, tmpFile, config, fileLockW, fileLockR, confLockW,
                 mapBuffer, streamBad, contentBefore, contentNew>>

\* A setter: unique_lock<shared_mutex> confLock(configLock)
SetLock(t) ==
  /\ ConfStep(t, "s_lock", "s_held")
  /\ CanLockConf
  /\ confLockW' = t
  /\ UNCHANGED <<confFile, tmpFile, config, fileLockW, fileLockR, confLockR,
                 mapBuffer, streamBad, contentBefore, contentNew>>

\* A setter: config[key] = value, and the lock released on return.  In
\* dataloader.go the assignment to an entry of a nil map panics; the deferred
\* Unlock runs and the panic ends the program.
SetReturn(t) ==
  /\ cfpc[t] = "s_held"
  /\ ~crashed
  /\ confLockW' = 0
  /\ IF config.nil
       THEN /\ crashed' = TRUE
            /\ cfpc' = [cfpc EXCEPT ![t] = "set_panic"]
            /\ UNCHANGED config
       ELSE /\ \E key \in SetKeys, val \in SetValues :
                 config' = [config EXCEPT !.map = MapAssign(config.map, key, val)]
            /\ cfpc' = [cfpc EXCEPT ![t] = "set_ok"]
            /\ UNCHANGED crashed
  /\ UNCHANGED <<lang, confFile, tmpFile, fileLockW, fileLockR, confLockR,
                 mapBuffer, streamBad, contentBefore, contentNew>>
  /\ UNCHANGED <<chanVars, threadVars, histVars, lifeVars, loggerVars, hookVars>>

\* ReadFromDisk: shared_lock<shared_mutex> fileLock(configFileLock)
ReadLock(t) ==
  /\ ConfStep(t, "r_lock", "r_parse")
  /\ CanRLockFile
  /\ fileLockR' = fileLockR \cup {t}
  /\ UNCHANGED <<confFile, tmpFile, config, fileLockW, confLockW, confLockR,
                 mapBuffer, streamBad, contentBefore, contentNew>>

\* A ReadFromDisk that stores what it has parsed when the parser fails
ReadParseStoresPartial(t) ==
  /\ \E opened \in BOOLEAN :
       IF opened /\ Parse(confFile).ok
         THEN /\ ConfStep(t, "r_parse", "r_conflock")
              /\ mapBuffer' = [mapBuffer EXCEPT ![t] = Parse(confFile).map]
              /\ UNCHANGED <<fileLockR, config>>
         ELSE /\ ConfStep(t, "r_parse", "read_error")
              /\ fileLockR' = fileLockR \ {t}
              /\ config' = IF opened
                             THEN [nil |-> FALSE, map |-> Parse(confFile).map]
                             ELSE config
              /\ UNCHANGED mapBuffer
  /\ UNCHANGED <<confFile, tmpFile, fileLockW, confLockW, confLockR,
                 streamBad, contentBefore, contentNew>>

\* ReadFromDisk: the file is opened and parsed into mapBuffer; on a failure to
\* open and on a parse error the method throws (returns the error) and the
\* file lock is released
ReadParse(t) ==
  /\ \E opened \in BOOLEAN :
       IF opened /\ Parse(confFile).ok
         THEN /\ ConfStep(t, "r_parse", "r_conflock")
              /\ mapBuffer' = [mapBuffer EXCEPT ![t] = Parse(confFile).map]
              /\ UNCHANGED <<fileLockR, config>>
         ELSE /\ ConfStep(t, "r_parse", "read_error")
              /\ fileLockR' = fileLockR \ {t}
              /\ UNCHANGED <<mapBuffer, config>>
  /\ UNCHANGED <<confFile, tmpFile, fileLockW, confLockW, confLockR,
                 streamBad, contentBefore, contentNew>>

\* ReadFromDisk: unique_lock<shared_mutex> confLock(configLock)
ReadConfLock(t) ==
  /\ ConfStep(t, "r_conflock", "r_assign")
  /\ CanLockConf
  /\ confLockW' = t
  /\ UNCHANGED <<confFile, tmpFile, config, fileLockW, fileLockR, confLockR,
                 mapBuffer, streamBad, contentBefore, contentNew>>

\* ReadFromDisk: config = mapBuffer, and both locks released on return
ReadAssign(t) ==
  /\ ConfStep(t, "r_assign", "read_ok")
  /\ config' = [nil |-> FALSE, map |-> mapBuffer[t]]
  /\ mapBuffer' = [mapBuffer EXCEPT ![t] = EmptyMap]
  /\ confLockW' = 0
  /\ fileLockR' = fileLockR \ {t}
  /\ UNCHANGED <<confFile, tmpFile, fileLockW, confLockR, streamBad,
                 contentBefore, contentNew>>

\* WriteToDisk: unique_lock<shared_mutex> fileLock(configFileLock)
WriteLock(t) ==
  /\ ConfStep(t, "w_lock", "w_conflock")
  /\ CanLockFile
  /\ fileLockW' = t
  /\ UNCHANGED <<confFile, tmpFile, config, fileLockR, confLockW, confLockR,
                 mapBuffer, streamBad, contentBefore, contentNew>>

\* WriteToDisk: shared_lock<shared_mutex> confLock(configLock)
WriteConfLock(t) ==
  /\ ConfStep(t, "w_conflock", "w_open")
  /\ CanRLockConf
  /\ confLockR' = confLockR \cup {t}
  /\ UNCHANGED <<confFile, tmpFile, config, fileLockW, fileLockR, confLockW,
                 mapBuffer, streamBad, contentBefore, contentNew>>

\* WriteToDisk: the tmp file is opened with truncation; when that fails the
\* method throws (returns the error)
WriteOpen(t) ==
  /\ \E opened \in BOOLEAN :
       IF opened
         THEN /\ ConfStep(t, "w_open", "w_write")
              /\ tmpFile' = <<>>
              /\ streamBad' = [streamBad EXCEPT ![t] = FALSE]
              /\ UNCHANGED <<fileLockW, confLockR>>
         ELSE /\ ConfStep(t, "w_open", "write_error")
              /\ fileLockW' = 0
              /\ confLockR' = confLockR \ {t}
              /\ UNCHANGED <<tmpFile, streamBad>>
  /\ UNCHANGED <<confFile, config, fileLockR, confLockW, mapBuffer, contentBefore,
                 contentNew>>

\* How much of the content reaches the tmp file: all of it, or its first half
\* when the write fails part-way
WriteCuts(content) == {Len(content) \div 2, Len(content)}

\* WriteToDisk: the deparsed config goes to the stream of the tmp file.  The
\* write can fail part-way (the disk is full): dataloader.go tests the error of
\* file.Write and returns it; dataloader.hpp does not look at the state of the
\* ofstream and goes on.
WriteWrite(t) ==
  /\ \E order \in IterationOrders(config.map) :
       LET content == Deparse(config.map, order)
       IN  /\ contentBefore' = confFile
           /\ contentNew' = content
           /\ \E n \in WriteCuts(content) :
                /\ tmpFile' = SubSeq(content, 1, n)
                /\ IF n < Len(content) /\ lang = "go"
                     THEN /\ ConfStep(t, "w_write", "write_error")
                          /\ fileLockW' = 0
                          /\ confLockR' = confLockR \ {t}
                          /\ UNCHANGED streamBad
                     ELSE /\ ConfStep(t, "w_write", "w_rename")
                          /\ streamBad' = [streamBad EXCEPT ![t] = n < Len(content)]
                          /\ UNCHANGED <<fileLockW, confLockR>>
  /\ UNCHANGED <<confFile, config, fileLockR, confLockW, mapBuffer>>

\* A WriteToDisk that returns with the config lock still held
WriteRenameKeepsConfLock(t) ==
  /\ \E renamed \in BOOLEAN :
       IF renamed
         THEN /\ ConfStep(t, "w_rename", "write_ok")
              /\ confFile' = tmpFile
              /\ tmpFile' = <<>>
         ELSE /\ ConfStep(t, "w_rename", "write_error")
              /\ UNCHANGED <<confFile, tmpFile>>
  /\ fileLockW' = 0
  /\ streamBad' = [streamBad EXCEPT ![t] = FALSE]
  /\ UNCHANGED <<config, fileLockR, confLockW, confLockR, mapBuffer,
                 contentBefore, contentNew>>

\* WriteToDisk: file.close() and the rename of the tmp file to configPath, which
\* replaces the file in one step or fails; both locks are released on return
WriteRename(t) ==
  /\ \E renamed \in BOOLEAN :
       IF renamed
         THEN /\ ConfStep(t, "w_rename", "write_ok")
              /\ confFile' = tmpFile
              /\ tmpFile' = <<>>
         ELSE /\ ConfStep(t, "w_rename", "write_error")
              /\ UNCHANGED <<confFile, tmpFile>>
  /\ fileLockW' = 0
  /\ confLockR' = confLockR \ {t}
  /\ streamBad' = [streamBad EXCEPT ![t] = FALSE]
  /\ UNCHANGED <<config, fileLockR, confLockW, mapBuffer, contentBefore, contentNew>>

\* The process ends at any moment; the files stay as they are
ConfCrash ==
  /\ ~crashed
  /\ crashed' = TRUE
  /\ UNCHANGED <<lang, confFile, tmpFile, config, fileLockW, fileLockR, confLockW,
                 confLockR, cfpc, mapBuffer, streamBad, contentBefore, contentNew>>
  /\ UNCHANGED <<chanVars, threadVars, histVars, lifeVars, loggerVars, hookVars>>

ConfSpecInit == InitChan /\ NoLogger /\ NoGoLogger /\ ConfigInit /\ NoHook

ConfNext ==
  \/ ConfCrash
  \/ \E t \in ConfThreads :
       \/ CallGet(t)
       \/ CallSet(t)
       \/ CallRead(t)
       \/ CallWrite(t)
       \/ GetLock(t)
       \/ GetReturn(t)
       \/ SetLock(t)
       \/ SetReturn(t)
       \/ ReadLock(t)
       \/ ReadParse(t)
       \/ ReadConfLock(t)
       \/ ReadAssign(t)
       \/ WriteLock(t)
       \/ WriteConfLock(t)
       \/ WriteOpen(t)
       \/ WriteWrite(t)
       \/ WriteRename(t)

\* Every thread inside a method is scheduled, and a lock that stays free is
\* given to a thread that waits for it.
ConfFairness ==
  \A t \in ConfThreads :
    /\ WF_vars(GetLock(t)) /\ WF_vars(GetReturn(t))
    /\ WF_vars(SetLock(t)) /\ WF_vars(SetReturn(t))
    /\ WF_vars(ReadLock(t)) /\ WF_vars(ReadParse(t))
    /\ WF_vars(ReadConfLock(t)) /\ WF_vars(ReadAssign(t))
    /\ WF_vars(WriteLock(t)) /\ WF_vars(WriteConfLock(t))
    /\ WF_vars(WriteOpen(t)) /\ WF_vars(WriteWrite(t)) /\ WF_vars(WriteRename(t))

ConfSpec == ConfSpecInit /\ [][ConfNext]_vars /\ ConfFairness

\* The same MetaConfig and threads, started on the files of LockFileInputs
ConfLiveInit ==
  InitChan /\ NoLogger /\ NoGoLogger /\ ConfigInitWith(LockFileInputs) /\ NoHook

ConfLiveSpec == ConfLiveInit /\ [][ConfNext]_vars /\ ConfFairness

----------------------------------------------------------------------------
\* Properties of the channel

\* The values get() returned with ok = true, in the order of the returns
DeliveredVals == [i \in DOMAIN delivered |-> delivered[i].val]

\* The threads that have called get() on the open channel: each of them has
\* been given a value or is still inside get().
Getters ==
  {delivered[i].by : i \in DOMAIN delivered} \cup {t \in AllThreads : pc[t] = "get_wait"}

\* C1: the K threads that were blocked in get() when close() shut the channel each
\* return (T(), false), and that close() returns only when all of them have left
\* their wait and readerThreadCount is 0.
C1_CloseWakesBlockedReaders ==
  closer # 0 =>
    /\ \A t \in blockedAtClose :
         pc[t] # "get_wait" => ret[t] = [val |-> DefaultT, ok |-> FALSE, returned |-> TRUE]
    /\ pc[closer] # "close_wait" =>
         /\ readerThreadCount = 0
         /\ \A t \in blockedAtClose : pc[t] # "get_wait"

\* Two receivers were blocked, the channel was closed, all three calls have returned.
C1_Witness ==
  /\ closer # 0
  /\ Cardinality(blockedAtClose) >= 2
  /\ pc[closer] = "idle"
  /\ \A t \in blockedAtClose : pc[t] = "idle" /\ ret[t] = ClosedResult

\* C5: on an open channel with a single consumer the values returned by get(), all
\* with ok = true, followed by the values still queued are the values pushed, in the
\* order of the pushes; the consumer does not stay blocked while a value is queued;
\* so N pushes followed by N gets return the N values once each, in push order.
C5_SingleConsumerFifo ==
  (~isChanShut /\ Cardinality(Getters) <= 1) =>
    /\ DeliveredVals \o chanQueue = accepted
    /\ \A c \in Getters :
         /\ (pc[c] = "get_wait" /\ c \in chanCondWait) => chanQueue = <<>>
         /\ delivered # <<>> =>
              ret[c] = [val |-> accepted[Len(delivered)], ok |-> TRUE, returned |-> TRUE]

\* MaxPush values were pushed and one consumer has been given all of them.
C5_Witness ==
  /\ ~isChanShut
  /\ Len(accepted) = MaxPush
  /\ Cardinality(Getters) = 1
  /\ Len(delivered) = MaxPush
  /\ chanQueue = <<>>
  /\ \A t \in AllThreads : pc[t] = "idle"

\* C6: no pushed value is returned by more than one get() call.
C6_NoDoubleDelivery ==
  \A i, j \in DOMAIN delivered : i # j => delivered[i].val # delivered[j].val

\* Two receivers were given one value each and the channel was closed.
C6_Witness ==
  /\ Len(delivered) >= 2
  /\ delivered[1].by # delivered[2].by
  /\ isChanShut

\* C7: once the channel is shut no step changes the queue, nothing more is accepted,
\* size() returns 0 and no get() returns ok = true.
C7_PushAfterCloseIsNoOp ==
  [][isChanShut =>
       /\ chanQueue' = chanQueue
       /\ accepted' = accepted
       /\ delivered' = delivered
       /\ SizeValue = 0 /\ SizeValue' = 0
       /\ \A t \in AllThreads : ret'[t] = ret[t] \/ ~ret'[t].ok]_vars

\* A push() was refused on the shut channel while values were still queued.
C7_Witness ==
  /\ isChanShut
  /\ pushCalls > Len(accepted)
  /\ chanQueue # <<>>

\* C8: a get() that starts on the shut channel returns (T(), false) without
\* blocking and leaves the queue and readerThreadCount as they are.
C8_GetOnClosedReturnsAtOnce ==
  [][\A t \in AllThreads :
       (isChanShut /\ pc[t] = "idle" /\ ChanGet(t)) =>
         /\ pc'[t] = "idle"
         /\ ret'[t] = [val |-> DefaultT, ok |-> FALSE, returned |-> TRUE]
         /\ chanQueue' = chanQueue
         /\ readerThreadCount' = readerThreadCount]_vars

\* A thread that was not inside get() at the close has been returned (T(), false)
\* while values were still queued.
C8_Witness ==
  /\ isChanShut
  /\ chanQueue # <<>>
  /\ \E t \in AllThreads \ blockedAtClose : ret[t].returned /\ ~ret[t].ok

\* The number of get() calls that returned v with ok = true
TimesDelivered(v) == Cardinality({i \in DOMAIN delivered : delivered[i].val = v})

\* C9: under fair scheduling, a value at the head of the queue of the open channel
\* while a receiver is blocked in get() (the state a push() onto the empty channel
\* with blocked receivers leaves) is eventually returned by exactly one get() call,
\* and no queued value stays queued while a receiver stays blocked forever, unless
\* the channel is closed.
C9_NoLostWakeup ==
  \A v \in 1 .. MaxPush :
    /\ (/\ ~isChanShut
        /\ chanQueue # <<>> /\ Head(chanQueue) = v
        /\ \E t \in AllThreads : pc[t] = "get_wait")
         ~> (isChanShut \/ TimesDelivered(v) = 1)
    /\ (/\ ~isChanShut
        /\ \E i \in DOMAIN chanQueue : chanQueue[i] = v)
         ~> \/ isChanShut
            \/ TimesDelivered(v) = 1
            \/ \A t \in AllThreads : pc[t] # "get_wait"

\* A value is queued on the open channel and a receiver is still inside its wait.
C9_Witness ==
  /\ ~isChanShut
  /\ chanQueue # <<>>
  /\ \E t \in AllThreads : pc[t] = "get_wait"

\* C10: after close() has shut the channel, readerThreadCount reaches 0, every
\* blocked receiver returns and close() itself returns.
C10_CloseTerminates ==
  (closer # 0) ~>
    (/\ readerThreadCount = 0
     /\ \A t \in AllThreads : pc[t] # "get_wait" /\ pc[t] # "close_wait")

\* close() is blocked while two receivers have not yet left their wait.
C10_Witness ==
  /\ closer # 0
  /\ pc[closer] = "close_wait"
  /\ Cardinality({t \in AllThreads : pc[t] = "get_wait"}) >= 2

----------------------------------------------------------------------------
\* Properties of the Logger

\* C2: ~Logger has closed the log file, or has returned, only when the worker has
\* left its loop.
C2_TeardownWaitsForWorker ==
  dpc \in {"file_closed", "done"} => wpc = "exited"

\* C3: the worker makes no write to the log file after ~Logger has returned.
C3_NoWriteAfterShutdown == lateWrites = 0

\* C4: when ~Logger has returned, every record that was pushed onto the channel
\* before ~Logger was entered is in the log file.
C4_ShutdownLosesNoRecord ==
  dpc = "done" =>
    \A i \in DOMAIN pendingAtShutdown :
      \E j \in DOMAIN logFileContent : logFileContent[j] = pendingAtShutdown[i]

----------------------------------------------------------------------------
\* C11: isChanShut is false when the channel is constructed, and no step of
\* push, get, close, size, isclosed or ~chan takes it from true back to false.
C11_ClosedIsMonotonic ==
  /\ ~isChanShut
  /\ [][isChanShut => isChanShut']_vars

\* The channel was shut, and after that a push was refused, a get returned not
\* ok and ~chan returned.
C11_Witness ==
  /\ isChanShut
  /\ destroyed
  /\ pushCalls > Len(accepted)
  /\ \E t \in Threads : ret[t] = GetResult(DefaultT, FALSE)

\* C12: close() on a channel that is shut, called as close() or by ~chan,
\* returns without waiting and leaves isChanShut, chanQueue and
\* readerThreadCount as they are.
C12_CloseIsIdempotent ==
  [][\A t \in Threads :
       (isChanShut /\ (ClientClose(t) \/ ClientDestroy(t)))
         => /\ pc'[t] = "idle"
            /\ UNCHANGED <<isChanShut, chanQueue, readerThreadCount>>]_vars

\* A second close() has returned while the first one still waits for the
\* receivers, with a value left in the queue.
C12_Witness ==
  /\ closer # 0
  /\ destroyer # 0
  /\ destroyer # closer
  /\ pc[closer] = "close_wait"
  /\ pc[destroyer] = "idle"
  /\ chanQueue # <<>>

\* C13: size() returns the number of queued elements while the channel is
\* open and 0 once it is shut, also when elements remain in the queue; no
\* size() call changes the state of the channel.
C13_SizeIsLengthOrZero ==
  /\ SizeValue = (IF isChanShut THEN 0 ELSE Len(chanQueue))
  /\ \A t \in Threads : ~ENABLED (ClientSize(t) /\ chanVars' # chanVars)

\* The channel is shut with every pushed value still queued, and a thread can
\* call size().
C13_Witness ==
  /\ isChanShut
  /\ Len(chanQueue) = MaxPush
  /\ \E t \in Threads : ENABLED ClientSize(t)

\* C14: push() has no wait: a thread that is in no call can push in every
\* state, whatever the queue length, whether the channel is open or shut and
\* whether a close() is waiting, and the one critical section of push() ends
\* with the thread back in its caller, in no wait set.
C14_PushNeverBlocks ==
  \A t \in Threads :
    (pc[t] = "idle" /\ pushCalls < MaxPush)
      => ENABLED (/\ ClientPush(t)
                  /\ pc'[t] = "idle"
                  /\ t \notin (chanCondWait' \cup readerCondWait'))

\* A push() has returned on a shut channel while close() still waits for a
\* receiver, and one has returned on an open channel with no receiver.
C14_Witness ==
  /\ closer # 0
  /\ pc[closer] = "close_wait"
  /\ pushCalls > Len(accepted)
  /\ chanQueue # <<>>

\* C15: when ~chan has returned on a channel that was open when ~chan began
\* (so that its close() is the one that shut the channel), the channel is shut
\* and no thread is blocked in get().
C15_DestructorCloses ==
  (destroyed /\ closer = destroyer)
    => /\ isChanShut
       /\ \A t \in Threads : pc[t] # "get_wait"

\* ~chan has returned on a channel that it shut itself while receivers were
\* blocked in get().
C15_Witness ==
  /\ destroyed
  /\ closer = destroyer
  /\ blockedAtClose # {}

\* C16: when get() has returned ok = false to the worker, the channel is shut
\* and its queue holds no record (no record that push() accepted and get() has
\* not returned).
C16_FalseMeansDrained ==
  (ret[Worker].returned /\ ~ret[Worker].ok)
    => (isChanShut /\ chanQueue = <<>>)

\* A log call of level WARN or INFO pushed the record with this number only
\* under a logLevel that lets the level through.
PassedGate(rec) ==
  /\ logMsgs[rec] = WARN => logLevel \in {WARN, INFO}
  /\ logMsgs[rec] = INFO => logLevel = INFO

\* C17: LogError pushes under every logLevel, LogWarn exactly when logLevel
\* is WARN or INFO, LogInfo exactly when logLevel is INFO; a suppressed call
\* changes nothing, and no message of a suppressed level is ever pushed or
\* given to log().
C17_LevelGating ==
  /\ \A p \in Producers :
       (MayLog(p) /\ pushCalls < MaxPush)
         => /\ ENABLED (LogError(p) /\ pushCalls' = pushCalls + 1)
            /\ (ENABLED (LogWarn(p) /\ pushCalls' = pushCalls + 1))
                 <=> logLevel \in {WARN, INFO}
            /\ (ENABLED (LogInfo(p) /\ pushCalls' = pushCalls + 1))
                 <=> logLevel = INFO
            /\ logLevel = ERROR => ~ENABLED (LogWarn(p) /\ vars' # vars)
            /\ logLevel # INFO => ~ENABLED (LogInfo(p) /\ vars' # vars)
  /\ \A rec \in DOMAIN logMsgs : PassedGate(rec)
  /\ \A i \in DOMAIN writes :
       writes[i].rec # PressureRecord => PassedGate(writes[i].rec)

\* Under logLevel WARN a WARN message was pushed and given to log(), and a
\* LogInfo call can still be made.
C17_Witness ==
  /\ logLevel = WARN
  /\ pushCalls < MaxPush
  /\ \E i \in DOMAIN writes :
       writes[i].rec # PressureRecord /\ logMsgs[writes[i].rec] = WARN
  /\ \E p \in Producers : ENABLED LogInfo(p)

\* C18: a LogError, LogWarn or LogInfo call on a Logger whose channel has been
\* shut returns to its caller in the same step, enqueues nothing and writes
\* nothing; and every record the worker gives to log() is the pressure warning
\* or a record that push() accepted, so the refused message is never written.
C18_LogAfterShutdownIsNoOp ==
  [][/\ \A p \in Producers :
          (isChanShut /\ (LogError(p) \/ LogWarn(p) \/ LogInfo(p)))
            => /\ pc'[p] = "idle"
               /\ UNCHANGED <<chanQueue, accepted, writes, logFileContent>>
     /\ writes' # writes
          => LET rec == writes'[Len(writes')].rec
             IN  rec = PressureRecord \/ \E i \in DOMAIN accepted : accepted[i] = rec
    ]_vars

\* ~Logger has shut the channel and has not returned, a log call was made
\* after that and refused, and the worker has given a record to log().
C18_Witness ==
  /\ isChanShut
  /\ dpc \in {"closing", "file_closed"}
  /\ pushCalls > Len(accepted)
  /\ writes # <<>>

\* The places in writes of the pressure warnings the worker gave to log()
\* while it held the dequeued record val, and of val itself
PressureWrites(val) ==
  {j \in DOMAIN writes : writes[j].rec = PressureRecord /\ writes[j].for = val}
RecordWrites(val) == {j \in DOMAIN writes : writes[j].rec = val}

\* The worker has finished the pass of its loop for the i-th dequeued record
PassDone(i) ==
  \/ i < Len(delivered)
  \/ wpc \in {"get", "exited"}
  \/ wpc = "got" /\ ~(pc[Worker] = "idle" /\ ret[Worker].ok)

\* The pass of the worker's loop for the i-th dequeued record, with the
\* pressure warning due above the depth threshold: the record is given to
\* log() at most once, and once when the pass is over; before size() is read
\* nothing is written; if the size read is above threshold there is at most one
\* pressure warning, and exactly one, placed before the record, once the
\* record is written; if not there is none.
PassWritesAsDue(i, threshold) ==
  LET val == delivered[i].val
      P == PressureWrites(val)
      R == RecordWrites(val)
  IN  /\ Cardinality(R) <= 1
      /\ PassDone(i) => Cardinality(R) = 1
      /\ IF i \notin DOMAIN sizeRead
            THEN P = {} /\ R = {}
            ELSE IF sizeRead[i] > threshold
              THEN /\ Cardinality(P) <= 1
                   /\ R # {} => /\ Cardinality(P) = 1
                                 /\ \A j \in P : \A k \in R : j < k
              ELSE P = {}

\* C19: for every record the worker dequeues with ok = true: if the size()
\* read right after the dequeue exceeds logChanThreshold the worker gives
\* exactly one pressure warning to log(), before the dequeued record;
\* otherwise none; and the dequeued record is given to log() exactly once.
C19_PressureWarningPerDequeue ==
  \A i \in DOMAIN delivered : PassWritesAsDue(i, logChanThreshold)

\* The worker has finished two passes, one with a size read above the
\* threshold and one with a size read that is not.
C19_Witness ==
  \E i, k \in DOMAIN sizeRead :
    /\ sizeRead[i] > logChanThreshold
    /\ sizeRead[k] <= logChanThreshold
    /\ PassDone(i) /\ PassDone(k)
    /\ PressureWrites(delivered[i].val) # {}

\* C20 as stated: the depth above which the pressure warning is written is
\* the logQueueThreshold given to the constructor: no pressure warning for a
\* dequeue with a size read of at most logQueueThreshold.
C20_ThresholdIsConstructorArgument ==
  \A i \in DOMAIN sizeRead :
    sizeRead[i] <= logQueueThreshold => PressureWrites(delivered[i].val) = {}

\* C20: the depth above which the pressure warning is written is half of the
\* logQueueThreshold given to the constructor, rounded down: no pressure
\* warning for a dequeue with a size read of at most logQueueThreshold / 2,
\* one for a dequeue with a greater size read, once its record is written.
C20_ThresholdIsHalved ==
  \A i \in DOMAIN sizeRead :
    LET val == delivered[i].val
    IN  /\ sizeRead[i] <= logQueueThreshold \div 2 => PressureWrites(val) = {}
        /\ (sizeRead[i] > logQueueThreshold \div 2 /\ RecordWrites(val) # {})
             => Cardinality(PressureWrites(val)) = 1

\* A pressure warning was written for a dequeue with a size read that is not
\* above the logQueueThreshold given to the constructor.
C20_Witness ==
  \E i \in DOMAIN sizeRead :
    /\ sizeRead[i] <= logQueueThreshold
    /\ sizeRead[i] > logQueueThreshold \div 2
    /\ PressureWrites(delivered[i].val) # {}
    /\ RecordWrites(delivered[i].val) # {}

\* C21: when more than logQueueThreshold records were pending in the open
\* channel before the worker dequeued any, a pressure warning is given to
\* log() before the last of those records is: for every n above
\* logQueueThreshold among the records pending then, the n-th record is
\* written only after a pressure warning.
C21_BackpressureSignal ==
  \A n \in DOMAIN accepted :
    (n > logQueueThreshold /\ n <= pendingBeforeGet)
      => \A k \in RecordWrites(accepted[n]) :
           \E j \in DOMAIN writes : j < k /\ writes[j].rec = PressureRecord

\* More records than logQueueThreshold were pending before the first dequeue
\* and the last of them has been written.
C21_Witness ==
  /\ pendingBeforeGet > logQueueThreshold
  /\ RecordWrites(accepted[pendingBeforeGet]) # {}

\* C22: with logDebug = false no record given to log() has a debuginfo block,
\* and with logDebug = true every one has; the pressure warning included.
C22_DebugInfoFollowsToggle ==
  \A j \in DOMAIN writes : writes[j].debug = logDebug

\* C23: when logFile cannot be opened the constructor throws and no worker is
\* started; when it can, exactly one worker is started, after the file was
\* opened, and no second worker is ever started.
C23_ConstructorFailure ==
  /\ workers <= 1
  /\ cpc = "open" => workers = 0
  /\ cpc = "threw" => (workers = 0 /\ wpc = "none" /\ ~logFileOpen)
  /\ cpc = "start" => (workers = 0 /\ logFileOpen)
  /\ cpc = "done" => workers = 1
  /\ (workers = 1 /\ dpc = "alive") => logFileOpen

\* The file could not be opened and the constructor has thrown.
C23_Witness ==
  /\ cpc = "threw"
  /\ ~logFileOpen
  /\ workers = 0

\* C24: every step that writes to the log file is a step of the one worker
\* thread in log(): no log call of a producer and no step of ~Logger writes,
\* and a step writes one record.
C24_SingleWriter ==
  [][(writes' # writes \/ logFileContent' # logFileContent)
       => /\ workers = 1
          /\ wpc \in {"warn", "log"}
          /\ wpc' # wpc
          /\ Len(writes') = Len(writes) + 1
          /\ Len(logFileContent') <= Len(logFileContent) + 1
          /\ UNCHANGED <<pushCalls, dpc, cpc>>]_vars

\* The worker has written two records while the producers made every log call
\* and ~Logger ran to its end.
C24_Witness ==
  /\ Len(writes) >= 2
  /\ pushCalls = MaxPush
  /\ dpc = "done"

\* C25: the worker leaves its loop only when the channel is shut, and once
\* ~Logger has shut the channel the worker eventually receives ok = false and
\* exits.
C25_WorkerExitsOnClosure ==
  /\ [](wpc = "exited" => isChanShut)
  /\ (isChanShut /\ workers = 1) ~> (wpc = "exited")

\* C26: with NProducers producers and one consumer, the values get() returns
\* are, in order, the values push() enqueued in the order in which the push()
\* calls took the mutex, and the values of each producer are returned in the
\* order in which that producer pushed them.
C26_PerProducerFifo ==
  /\ Len(delivered) <= Len(accepted)
  /\ \A i \in DOMAIN delivered : delivered[i].val = accepted[i]
  /\ \A i, j \in DOMAIN delivered :
       (i < j /\ ProducerOf(delivered[i].val) = ProducerOf(delivered[j].val))
         => NumberOf(delivered[i].val) < NumberOf(delivered[j].val)

\* The consumer has been given MaxFifoPush values, two of them of one
\* producer and one of another.
C26_Witness ==
  /\ ~isChanShut
  /\ Len(delivered) = MaxFifoPush
  /\ \E i, j, k \in DOMAIN delivered :
       /\ i < j
       /\ ProducerOf(delivered[i].val) = ProducerOf(delivered[j].val)
       /\ ProducerOf(delivered[k].val) # ProducerOf(delivered[i].val)

\* C27: every line the worker writes has the tag of the level of its record:
\* ERROR for ERROR, WARNING for WARN, INFORMATION for INFO.
C27_LevelTags ==
  \A j \in DOMAIN writes :
    LET level == MsgLevel(writes[j].rec)
    IN  /\ level = ERROR => writes[j].tag = "ERROR"
        /\ level = WARN => writes[j].tag = "WARNING"
        /\ level = INFO => writes[j].tag = "INFORMATION"

\* C28: in the Go logger a successful InitLogger returns to its caller, and
\* it returns while l.logChan is still open.
C28_GoInitLoggerReturns ==
  /\ (ipc \notin {"open", "failed"}) ~> (ipc = "returned")
  /\ [](ipc = "returned" => ~goClosed)

\* C29: in the Go logger no goroutine is ever blocked in the send of
\* LogError, LogWarn or LogInfo.
C29_GoLogNeverBlocks ==
  \A s \in Producers : gpc[s] # "send"

\* C30: in the Go logger a LogError, LogWarn or LogInfo call made once
\* CloseLogger has closed l.logChan returns to its caller, does not abort the
\* program and enqueues nothing.
C30_GoLogAfterCloseIsNoOp ==
  [][\A s \in Producers :
       (goClosed /\ gpc[s] = "idle"
          /\ (GoLogError(s) \/ GoLogWarn(s) \/ GoLogInfo(s)))
         => /\ ~goPanicked'
            /\ gpc'[s] = "idle"
            /\ goLogChan' = goLogChan]_vars

----------------------------------------------------------------------------
\* C31: readerThreadCount is the number of threads suspended inside get()
\* between its increment and its decrement, and it is never negative.

\* The threads that are inside get() between readerThreadCount++ and
\* readerThreadCount--
SuspendedInGet == {t \in AllThreads : pc[t] = "get_wait"}

C31_ReaderCountIsWaiters ==
  /\ readerThreadCount = Cardinality(SuspendedInGet)
  /\ readerThreadCount >= 0

\* Two receivers were blocked when close() ran; one has left, one is still inside
C31_Witness ==
  /\ isChanShut
  /\ Cardinality(blockedAtClose) = 2
  /\ readerThreadCount = 1
  /\ Cardinality(SuspendedInGet) = 1

----------------------------------------------------------------------------
\* C33: every close() call, that of ~chan included, returns only in a state
\* where no receiver is blocked inside get().
C33_CloseReturnsAfterReceivers ==
  [][\A t \in Threads :
       ((ClientClose(t) \/ ClientDestroy(t) \/ CloseWake(t)) /\ pc'[t] = "idle")
         => SuspendedInGet' = {}]_vars

----------------------------------------------------------------------------
\* C34: with logLevel = ERROR the worker writes ERROR-level lines only, no
\* WARN-level and no INFO-level line.
C34_ErrorLevelWritesErrorsOnly ==
  logLevel = ERROR =>
    \A j \in DOMAIN writes : MsgLevel(writes[j].rec) = ERROR

----------------------------------------------------------------------------
\* C35: updateHandler writes the response of an update request only after
\* every goroutine started for the request has finished, and the response's
\* error list holds the error of every hook that failed for the request.
C35_ResponseAfterAllHooks ==
  hkResponse.status = 200 =>
    /\ hkResponse.running = {}
    /\ hkResponse.err = FailedHooks

----------------------------------------------------------------------------
\* C32: at every step of a WriteToDisk, a crash at any step included, the file
\* at configPath holds the complete previous content or the complete new
\* content, never a part of one.
C32_ConfigFileNeverPartial == confFile \in {contentBefore, contentNew}

----------------------------------------------------------------------------
\* C36: a ReadFromDisk that fails (the file cannot be opened, or the parser
\* stops at an error) leaves config as it was; ReadFromDisk changes config only
\* in its last step, to the map of the file parsed to its end.
C36_FailedReadKeepsConfig ==
  [][\A t \in ConfThreads :
       /\ (ReadLock(t) \/ ReadParse(t) \/ ReadConfLock(t)) => config' = config
       /\ ReadAssign(t) =>
            /\ Parse(confFile).ok
            /\ config' = [nil |-> FALSE, map |-> Parse(confFile).map]]_vars

\* A ReadFromDisk has failed in the middle of the file, after a pair it had
\* parsed, and config holds what a setter put there before
C36_Witness ==
  \E t \in ConfThreads :
    /\ cfpc[t] = "read_error"
    /\ ~Parse(confFile).ok
    /\ Parse(confFile).map # EmptyMap
    /\ config.map # EmptyMap
    /\ config.map # Parse(confFile).map

----------------------------------------------------------------------------
\* C37: no thread waits for the file lock while it holds the config lock, and
\* every MetaConfig call that has been entered returns (unless the process
\* ends first).
C37_ConfigCallsComplete ==
  /\ [](\A t \in ConfThreads :
          cfpc[t] \in {"r_lock", "w_lock"} => t \notin confLockR /\ confLockW # t)
  /\ \A t \in ConfThreads : (cfpc[t] # "idle") ~> (cfpc[t] \in Returned \/ crashed)

\* A WriteToDisk holds the file lock and waits for the config lock, which a
\* setter holds
C37_Witness ==
  \E t, u \in ConfThreads :
    /\ cfpc[t] = "w_conflock"
    /\ fileLockW = t
    /\ cfpc[u] = "s_held"
    /\ confLockW = u

====
